---- MODULE Spec2Model ----
(***************************************************************************)
(* Model of the silver-layer pipeline (src/src/preprocessing.py,           *)
(* SilverProcessor) and of the churn stage that consumes its output        *)
(* (src/scripts/build_churn_dataset.py).                                   *)
(*                                                                         *)
(* Tables are sequences of records (one record per row, in row order).     *)
(* A missing value (NaN / NaT / <NA>) is the sentinel NaN.  Money is in    *)
(* integer cents, a timestamp is an integer number of time units since an  *)
(* epoch (UnitsPerDay units make one day).  Means and ratios are exact     *)
(* rationals [num, den]; the missing rational is 0/0.  Quantile edges are  *)
(* kept multiplied by the bucket count so that they stay integers.         *)
(*                                                                         *)
(* Columns no property below reads (order_delivered_customer_date, the     *)
(* calendar fields, delivery_days, freight_ratio, payment_value, the       *)
(* review aggregates, products) are left out of the rows.  The operations  *)
(* on them raise only as the modelled ones do: a missing column, or a      *)
(* delivery date that does not parse (as for the purchase timestamp).      *)
(***************************************************************************)
EXTENDS Integers, Sequences, FiniteSets, TLC

VARIABLES
    bronze,     \* the bronze layer on disk: the tables load_bronze reads
    silver,     \* the silver layer on disk: the three files run() writes
    gold,       \* customer_churn_features.parquet
    self,       \* SilverProcessor's loaded tables (self.orders, ...)
    pc,         \* position in run() / the churn script
    error,      \* the exception that aborted run(), "none" otherwise
    df,         \* run()'s local `orders`: the order-level fact table
    rfm,        \* run()'s local `rfm`
    customers   \* run()'s local `customers`: the customer summary

vars == <<bronze, silver, gold, self, pc, error, df, rfm, customers>>

---------------------------------------------------------------------------
(* Bounds of the model *)

UnitsPerDay == 2      \* time resolution: units per day
MaxCust     == 6      \* largest customer population of the RFM family
MaxFreq     == 2      \* most orders per customer in the RFM family
MaxPay      == 3      \* most payment rows of one order
NumOrders   == 3      \* orders of the small bronze snapshots
NumTypes    == 3      \* number of payment types (ordered as their names sort)

(* Program constants *)

ChurnDays   == 90     \* build_churn_dataset.py: days_since_last_order > 90
DaysPerMonth == 30    \* preprocessing.py: days_active / 30
NaN         == -1000000   \* a missing value
Malformed   == -2000000   \* a timestamp string that does not parse

---------------------------------------------------------------------------
(* Generic helpers: pandas reductions, which skip missing values *)

SetMin(S) == CHOOSE x \in S : \A y \in S : x <= y
SetMax(S) == CHOOSE x \in S : \A y \in S : x >= y

RECURSIVE SetToSortedSeq(_)
SetToSortedSeq(S) ==
    IF S = {} THEN <<>>
    ELSE LET m == SetMin(S) IN <<m>> \o SetToSortedSeq(S \ {m})

Range(s) == { s[i] : i \in DOMAIN s }

NotNaN(v) == v # NaN

DropNa(xs) == SelectSeq(xs, NotNaN)

RECURSIVE SeqSum(_)
SeqSum(xs) == IF xs = <<>> THEN 0 ELSE Head(xs) + SeqSum(Tail(xs))

\* Series.sum(): missing values are skipped, an empty sum is 0
Sum(xs) == SeqSum(DropNa(xs))

\* Series.max() / Series.min(): missing values are skipped, NaN if none is left
Max(xs) == IF DropNa(xs) = <<>> THEN NaN ELSE SetMax(Range(DropNa(xs)))
Min(xs) == IF DropNa(xs) = <<>> THEN NaN ELSE SetMin(Range(DropNa(xs)))

\* Series.mean(): sum / count over the non-missing values, 0/0 if none
Mean(xs) == [num |-> Sum(xs), den |-> Len(DropNa(xs))]

\* Series.nunique()
Nunique(xs) == Cardinality(Range(DropNa(xs)))

\* Timedelta.days: whole days of a non-negative difference, NaN if either is NaT
Days(later, earlier) ==
    IF later = NaN \/ earlier = NaN THEN NaN
    ELSE (later - earlier) \div UnitsPerDay

\* the column `col` of a table, in row order
Column(rows, col) == [i \in DOMAIN rows |-> rows[i][col]]

\* the rows of the group whose `key` is k, in row order
Group(rows, key, k) == SelectSeq(rows, LAMBDA r : r[key] = k)

\* groupby(key): the distinct non-missing keys, sorted
GroupKeys(rows, key) ==
    SetToSortedSeq({ rows[i][key] : i \in DOMAIN rows } \ {NaN})

---------------------------------------------------------------------------
(* pandas.qcut(x, q): equal-frequency binning *)

\* Series.quantile(k/q), linear interpolation between the order statistics,
\* multiplied by q.  `sorted` is the non-missing values in ascending order.
EdgeQ(sorted, q, k) ==
    LET pos == (Len(sorted) - 1) * k
        lo  == pos \div q
        fr  == pos % q
    IN  IF fr = 0 THEN q * sorted[lo + 1]
        ELSE q * sorted[lo + 1] + fr * (sorted[lo + 2] - sorted[lo + 1])

\* the bin edges are unique (duplicates="raise" otherwise); no values, no edges
EdgesUnique(sorted, q) ==
    /\ Len(sorted) > 0
    /\ \A k \in 1..q : EdgeQ(sorted, q, k - 1) < EdgeQ(sorted, q, k)

\* the bin of x: bins are (edge[k-1], edge[k]], the lowest edge included
Bucket(sorted, q, x) ==
    IF x = NaN THEN NaN
    ELSE SetMin({ k \in 1..q : q * x <= EdgeQ(sorted, q, k) })

\* qcut: ok = FALSE stands for ValueError("Bin edges must be unique");
\* codes[i] is the 1-based bin of xs[i], NaN for a missing xs[i]
Qcut(xs, q) ==
    LET sorted == SortSeq(DropNa(xs), LAMBDA a, b : a < b)
    IN  IF EdgesUnique(sorted, q)
        THEN [ok |-> TRUE, codes |-> [i \in DOMAIN xs |-> Bucket(sorted, q, xs[i])]]
        ELSE [ok |-> FALSE, codes |-> <<>>]

\* (variant) Series.rank(method="first", ascending=False)
RankFirstDescending(xs) ==
    [i \in DOMAIN xs |->
        1 + Cardinality({ j \in DOMAIN xs : xs[j] > xs[i] })
          + Cardinality({ j \in DOMAIN xs : j < i /\ xs[j] = xs[i] })]

\* Series.rank(method="first"): rank by value, ties in row order
RankFirst(xs) ==
    [i \in DOMAIN xs |->
        1 + Cardinality({ j \in DOMAIN xs : xs[j] < xs[i] })
          + Cardinality({ j \in DOMAIN xs : j < i /\ xs[j] = xs[i] })]

---------------------------------------------------------------------------
(* Series.mode(): the most frequent values, sorted ascending *)

Count(xs, v) == Cardinality({ i \in DOMAIN xs : xs[i] = v })

MostFrequent(xs) ==
    { v \in Range(xs) : \A w \in Range(xs) : Count(xs, w) <= Count(xs, v) }

\* (variant) the most frequent values in order of first appearance
ModeFirstSeen(xs) ==
    LET first(v) == SetMin({ i \in DOMAIN xs : xs[i] = v })
        pos == SetToSortedSeq({ first(v) : v \in MostFrequent(xs) })
    IN  [i \in DOMAIN pos |-> xs[pos[i]]]

Mode(xs) == SetToSortedSeq(MostFrequent(xs))

---------------------------------------------------------------------------
(* SilverProcessor.build_order_level *)

RequiredColumns ==
    { "orders.order_status", "orders.order_purchase_timestamp",
      "customers.customer_id", "customers.customer_unique_id",
      "order_items.price", "payments.payment_type", "reviews.review_score" }

\* the required columns whose absence raises KeyError inside build_order_level
\* (customers.customer_unique_id is first read by build_rfm's groupby)
ColumnsOfBuildOrderLevel == RequiredColumns \ {"customers.customer_unique_id"}

\* those read before pd.to_datetime is called
ColumnsOfOrders == { "orders.order_status", "orders.order_purchase_timestamp" }

\* (variant) no status filter
AllOrders(orders) == orders

\* self.orders[self.orders["order_status"] == "delivered"]
DeliveredOrders(orders) ==
    SelectSeq(orders, LAMBDA o : o.order_status = "delivered")

\* pd.to_datetime raises on a string that is no date; a missing one becomes NaT
ToDatetimeRaises(orders) ==
    \E i \in DOMAIN orders : orders[i].order_purchase_timestamp = Malformed

\* orders.merge(self.customers, on="customer_id", how="left"): one row per
\* matching customers row, in order; one row with a missing customer_unique_id
\* if there is none
RECURSIVE MergeCustomers(_, _)
MergeCustomers(orders, custs) ==
    IF orders = <<>> THEN <<>>
    ELSE LET o == Head(orders)
             m == SelectSeq(custs, LAMBDA c : c.customer_id = o.customer_id)
             uid(i) == IF m = <<>> THEN NaN ELSE m[i].customer_unique_id
             n == IF m = <<>> THEN 1 ELSE Len(m)
         IN  [i \in 1..n |->
                [order_id |-> o.order_id,
                 customer_id |-> o.customer_id,
                 order_status |-> o.order_status,
                 order_purchase_timestamp |-> o.order_purchase_timestamp,
                 customer_unique_id |-> uid(i)]]
             \o MergeCustomers(Tail(orders), custs)

\* self.order_items.groupby("order_id").agg(count, sum, sum), left-merged:
\* an order without item rows gets missing aggregates
ItemsAgg(order_items, order_id) ==
    LET g == Group(order_items, "order_id", order_id)
    IN  IF g = <<>>
        THEN [items_count |-> NaN, total_price |-> NaN, total_freight |-> NaN]
        ELSE [items_count |-> Len(g),
              total_price |-> Sum(Column(g, "price")),
              total_freight |-> Sum(Column(g, "freight_value"))]

\* self.payments.groupby("order_id").agg(payment_type = x.mode()[0]), left-merged
PaymentsAgg(payments, order_id) ==
    LET g == Group(payments, "order_id", order_id)
    IN  IF g = <<>> THEN NaN ELSE Mode(Column(g, "payment_type"))[1]

build_order_level(t) ==
    LET orders == DeliveredOrders(t.orders)
        merged == MergeCustomers(orders, t.customers)
    IN  IF t.missing \in ColumnsOfOrders
        THEN [error |-> "KeyError", rows |-> <<>>]
        ELSE IF ToDatetimeRaises(orders)
        THEN [error |-> "ValueError", rows |-> <<>>]
        ELSE IF t.missing \in ColumnsOfBuildOrderLevel
        THEN [error |-> "KeyError", rows |-> <<>>]
        ELSE [error |-> "none",
              rows |-> [i \in DOMAIN merged |->
                LET r == merged[i]
                    it == ItemsAgg(t.order_items, r.order_id)
                IN  [order_id |-> r.order_id,
                     customer_id |-> r.customer_id,
                     order_status |-> r.order_status,
                     order_purchase_timestamp |-> r.order_purchase_timestamp,
                     customer_unique_id |-> r.customer_unique_id,
                     items_count |-> it.items_count,
                     total_price |-> it.total_price,
                     total_freight |-> it.total_freight,
                     payment_type |-> PaymentsAgg(t.payments, r.order_id)]]]

---------------------------------------------------------------------------
(* SilverProcessor.add_features *)

\* (variant) df["total_price"] - df["total_freight"]
OrderValueMinus(total_price, total_freight) ==
    IF total_price = NaN \/ total_freight = NaN THEN NaN
    ELSE total_price - total_freight

\* df["total_price"] + df["total_freight"]: missing if either is
OrderValue(total_price, total_freight) ==
    IF total_price = NaN \/ total_freight = NaN THEN NaN
    ELSE total_price + total_freight

\* labels=["Low", "Medium", "High", "Premium"]
ValueLabel(code) ==
    IF code = NaN THEN "NaN"
    ELSE <<"Low", "Medium", "High", "Premium">>[code]

add_features(rows) ==
    LET value == [i \in DOMAIN rows |->
                    OrderValue(rows[i].total_price, rows[i].total_freight)]
        cut == Qcut(value, 4)
    IN  IF ~cut.ok
        THEN [error |-> "ValueError", rows |-> <<>>]
        ELSE [error |-> "none",
              rows |-> [i \in DOMAIN rows |->
                LET r == rows[i]
                IN  [order_id |-> r.order_id,
                     customer_id |-> r.customer_id,
                     order_status |-> r.order_status,
                     order_purchase_timestamp |-> r.order_purchase_timestamp,
                     customer_unique_id |-> r.customer_unique_id,
                     items_count |-> r.items_count,
                     total_price |-> r.total_price,
                     total_freight |-> r.total_freight,
                     payment_type |-> r.payment_type,
                     order_value |-> value[i],
                     order_value_category |-> ValueLabel(cut.codes[i])]]]

---------------------------------------------------------------------------
(* SilverProcessor.build_rfm *)

\* (variant) labels=[4, 3, 2, 1, 0]
RecencyLabelsFromZero == <<4, 3, 2, 1, 0>>

\* labels=[5, 4, 3, 2, 1]
RecencyLabels == <<5, 4, 3, 2, 1>>

\* labels=[1, 2, 3, 4, 5]
ScoreLabels == <<1, 2, 3, 4, 5>>

Label(labels, code) == IF code = NaN THEN NaN ELSE labels[code]

build_rfm(rows, missing) ==
    LET ts == Column(rows, "order_purchase_timestamp")
        snapshot_date == IF Max(ts) = NaN THEN NaN ELSE Max(ts) + UnitsPerDay
        keys == GroupKeys(rows, "customer_unique_id")
        g(i) == Group(rows, "customer_unique_id", keys[i])
        recency == [i \in DOMAIN keys |->
            Days(snapshot_date, Max(Column(g(i), "order_purchase_timestamp")))]
        frequency == [i \in DOMAIN keys |-> Nunique(Column(g(i), "order_id"))]
        monetary == [i \in DOMAIN keys |-> Sum(Column(g(i), "order_value"))]
        R == Qcut(recency, 5)
        F == Qcut(RankFirst(frequency), 5)
        M == Qcut(monetary, 5)
    IN  IF missing = "customers.customer_unique_id"
        THEN [error |-> "KeyError", rows |-> <<>>]
        ELSE IF ~R.ok \/ ~F.ok \/ ~M.ok
        THEN [error |-> "ValueError", rows |-> <<>>]
        \* .astype(int) raises on a missing score
        ELSE IF \E i \in DOMAIN keys : R.codes[i] = NaN
        THEN [error |-> "ValueError", rows |-> <<>>]
        ELSE [error |-> "none",
              rows |-> [i \in DOMAIN keys |->
                [customer_unique_id |-> keys[i],
                 recency |-> recency[i],
                 frequency |-> frequency[i],
                 monetary |-> monetary[i],
                 R |-> Label(RecencyLabels, R.codes[i]),
                 F |-> Label(ScoreLabels, F.codes[i]),
                 M |-> Label(ScoreLabels, M.codes[i]),
                 RFM_SCORE |-> Label(RecencyLabels, R.codes[i])
                               + Label(ScoreLabels, F.codes[i])
                               + Label(ScoreLabels, M.codes[i])]]]

---------------------------------------------------------------------------
(* SilverProcessor.build_customer_summary *)

NaNQ == [num |-> 0, den |-> 0]

\* n / d for a column n of integers and a positive integer d
Over(n, d) == IF n = NaN THEN NaNQ ELSE [num |-> n, den |-> d]

\* (variant) Series.clip(lower=1): every value below 1 becomes 1
ClipAtOne(x) ==
    IF x.den # 0 /\ x.num < x.den THEN [num |-> 1, den |-> 1] ELSE x

\* Series.replace(0, 1): the value 0, and no other, becomes 1
ReplaceZeroByOne(x) ==
    IF x.den # 0 /\ x.num = 0 THEN [num |-> 1, den |-> 1] ELSE x

\* n / x for an integer n and a rational x
DividedBy(n, x) ==
    IF x.den = 0 THEN NaNQ ELSE [num |-> n * x.den, den |-> x.num]

build_customer_summary(rows) ==
    LET keys == GroupKeys(rows, "customer_unique_id")
        g(i) == Group(rows, "customer_unique_id", keys[i])
        ts(i) == Column(g(i), "order_purchase_timestamp")
        total_orders(i) == Nunique(Column(g(i), "order_id"))
        days_active(i) == Days(Max(ts(i)), Min(ts(i)))
    IN  [i \in DOMAIN keys |->
            [customer_unique_id |-> keys[i],
             total_orders |-> total_orders(i),
             total_spend |-> Sum(Column(g(i), "order_value")),
             avg_order_value |-> Mean(Column(g(i), "order_value")),
             first_order |-> Min(ts(i)),
             last_order |-> Max(ts(i)),
             days_active |-> days_active(i),
             orders_per_month |->
                DividedBy(total_orders(i),
                          ReplaceZeroByOne(Over(days_active(i), DaysPerMonth)))]]

---------------------------------------------------------------------------
(* scripts/build_churn_dataset.py *)

\* (variant) days_since_last_order >= 90
ChurnLabelInclusive(days) ==
    IF days # NaN /\ days >= ChurnDays THEN 1 ELSE 0

\* (last_order["days_since_last_order"] > 90).astype(int); NaN > 90 is False
ChurnLabel(days) ==
    IF days # NaN /\ days > ChurnDays THEN 1 ELSE 0

\* DataFrame.fillna(0) on a mean
FillNaQ(x) == IF x.den = 0 THEN [num |-> 0, den |-> 1] ELSE x

\* the row of a table keyed by customer_unique_id
Lookup(rows, k) == Group(rows, "customer_unique_id", k)[1]

build_churn_dataset(orders, customers_silver, rfm_silver) ==
    LET dataset_end == Max(Column(orders, "order_purchase_timestamp"))
        keys == GroupKeys(orders, "customer_unique_id")
        g(i) == Group(orders, "customer_unique_id", keys[i])
        days(i) == Days(dataset_end,
                        Max(Column(g(i), "order_purchase_timestamp")))
        order_count(i) == Nunique(Column(g(i), "order_id"))
    IN  [i \in DOMAIN keys |->
            [customer_unique_id |-> keys[i],
             order_count |-> order_count(i),
             total_spend_x |-> Sum(Column(g(i), "order_value")),
             avg_order_value_x |-> FillNaQ(Mean(Column(g(i), "order_value"))),
             single_purchase_customer |-> IF order_count(i) = 1 THEN 1 ELSE 0,
             total_orders |-> Lookup(customers_silver, keys[i]).total_orders,
             total_spend_y |-> Lookup(customers_silver, keys[i]).total_spend,
             avg_order_value_y |->
                Lookup(customers_silver, keys[i]).avg_order_value,
             orders_per_month |->
                Lookup(customers_silver, keys[i]).orders_per_month,
             RFM_SCORE |-> Lookup(rfm_silver, keys[i]).RFM_SCORE,
             churn |-> ChurnLabel(days(i))]]

---------------------------------------------------------------------------
(* The files of the silver layer *)

NoFile == [exists |-> FALSE, written_by |-> "nobody", rows |-> <<>>]

\* a file an earlier run left behind (its rows are not looked at)
OldFile == [exists |-> TRUE, written_by |-> "earlier run", rows |-> <<>>]

\* DataFrame.to_parquet(path, index=False)
ToParquet(rows) == [exists |-> TRUE, written_by |-> "this run", rows |-> rows]

SilverFiles == { "orders_silver", "rfm", "customers_silver" }

EmptySilver == [f \in SilverFiles |-> NoFile]
OldSilver   == [f \in SilverFiles |-> OldFile]

---------------------------------------------------------------------------
(* Bronze snapshots the pipeline is run on *)

Statuses == { "delivered", "shipped", "canceled" }

Order(i, status, ts) ==
    [order_id |-> i, customer_id |-> i, order_status |-> status,
     order_purchase_timestamp |-> ts]

Customer(cid, uid) == [customer_id |-> cid, customer_unique_id |-> uid]

Item(oid, n, price, freight) ==
    [order_id |-> oid, order_item_id |-> n, price |-> price,
     freight_value |-> freight]

Payment(oid, type) == [order_id |-> oid, payment_type |-> type]

RECURSIVE Flatten(_)
Flatten(ss) == IF ss = <<>> THEN <<>> ELSE Head(ss) \o Flatten(Tail(ss))

\* every order its own customer_id (as in the source data); the customers table
\* maps customer_id to the person, customer_unique_id
OnePerson(n)  == [i \in 1..n |-> Customer(i, i)]
TwoOrders(n)  == [i \in 1..n |-> Customer(i, (i + 1) \div 2)]
Unmatched(n)  == [i \in 1..(n - 1) |-> Customer(i, i)]
Duplicated(n) == <<Customer(1, 1)>> \o OnePerson(n)

DefaultTs(i)    == 10 * i * UnitsPerDay
DefaultItems(n) == [i \in 1..n |-> Item(i, 1, 1000 * i, 100)]
DefaultPayments(n) == [i \in 1..n |-> Payment(i, 1)]
DefaultOrders(n) == [i \in 1..n |-> Order(i, "delivered", DefaultTs(i))]

\* statuses and the customers table vary
JoinFamily ==
    { [orders |-> [i \in 1..NumOrders |-> Order(i, st[i], DefaultTs(i))],
       customers |-> c,
       order_items |-> DefaultItems(NumOrders),
       payments |-> DefaultPayments(NumOrders),
       missing |-> "none"] :
      st \in [1..NumOrders -> Statuses],
      c \in { OnePerson(NumOrders), TwoOrders(NumOrders),
              Unmatched(NumOrders), Duplicated(NumOrders) } }

\* the item rows of each order vary: none, free, a credit, one item, two items
ItemChoices(i) ==
    { <<>>,
      <<Item(i, 1, 0, 0)>>,
      <<Item(i, 1, -2000, 500)>>,
      <<Item(i, 1, 5000, 0)>>,
      <<Item(i, 1, 10000, 0)>>,
      <<Item(i, 1, 1000, 0), Item(i, 2, 0, 1500)>> }

ValueFamily ==
    { [orders |-> DefaultOrders(NumOrders),
       customers |-> c,
       order_items |-> Flatten(it),
       payments |-> DefaultPayments(NumOrders),
       missing |-> "none"] :
      it \in { f \in [1..NumOrders ->
                        UNION { ItemChoices(i) : i \in 1..NumOrders }] :
               \A i \in 1..NumOrders : f[i] \in ItemChoices(i) },
      c \in { OnePerson(NumOrders), TwoOrders(NumOrders) } }

\* the purchase timestamps vary: missing, unparseable, and instants around the
\* month and churn thresholds
TimeChoices ==
    { NaN, Malformed, 0, UnitsPerDay, 15 * UnitsPerDay, DaysPerMonth * UnitsPerDay,
      (ChurnDays + 1) * UnitsPerDay - 1, (ChurnDays + 1) * UnitsPerDay }

TimeFamily ==
    { [orders |-> [i \in 1..NumOrders |-> Order(i, "delivered", ts[i])],
       customers |-> c,
       order_items |-> DefaultItems(NumOrders),
       payments |-> DefaultPayments(NumOrders),
       missing |-> "none"] :
      ts \in [1..NumOrders -> TimeChoices],
      c \in { OnePerson(NumOrders), TwoOrders(NumOrders) } }

\* the payment rows of order 1 vary
RECURSIVE SeqsUpTo(_, _)
SeqsUpTo(S, n) ==
    IF n = 0 THEN { <<>> }
    ELSE SeqsUpTo(S, n - 1)
         \cup { Append(q, x) : q \in SeqsUpTo(S, n - 1), x \in S }

PaymentFamily ==
    { [orders |-> DefaultOrders(NumOrders),
       customers |-> OnePerson(NumOrders),
       order_items |-> DefaultItems(NumOrders),
       payments |-> [i \in DOMAIN types |-> Payment(1, types[i])]
                    \o Tail(DefaultPayments(NumOrders)),
       missing |-> "none"] :
      types \in SeqsUpTo(1..NumTypes, MaxPay) }

\* populations of 5..MaxCust customers, customer c with freq[c] orders, 1 or
\* MaxFreq; recency and monetary are all distinct, the frequencies heavily tied
Oid(c, j) == (c - 1) * MaxFreq + j

Population(n, freq) ==
    [orders |-> Flatten([c \in 1..n |-> [j \in 1..freq[c] |->
                    Order(Oid(c, j), "delivered", c * UnitsPerDay)]]),
     customers |-> Flatten([c \in 1..n |-> [j \in 1..freq[c] |->
                    Customer(Oid(c, j), c)]]),
     order_items |-> Flatten([c \in 1..n |-> [j \in 1..freq[c] |->
                    Item(Oid(c, j), 1, 1000 * c + j, 0)]]),
     payments |-> Flatten([c \in 1..n |-> [j \in 1..freq[c] |->
                    Payment(Oid(c, j), 1)]]),
     missing |-> "none"]

RfmFamily ==
    UNION { { Population(n, freq) : freq \in [1..n -> {1, MaxFreq}] } :
            n \in 5..MaxCust }

\* a required column is absent from one of the tables
SchemaFamily ==
    { [orders |-> DefaultOrders(NumOrders),
       customers |-> OnePerson(NumOrders),
       order_items |-> DefaultItems(NumOrders),
       payments |-> DefaultPayments(NumOrders),
       missing |-> m] : m \in RequiredColumns }

NoTables ==
    [orders |-> <<>>, customers |-> <<>>, order_items |-> <<>>,
     payments |-> <<>>, missing |-> "none"]

---------------------------------------------------------------------------
(* The state machine: SilverProcessor.run, then the churn script *)

Init ==
    /\ \/ bronze \in JoinFamily \cup SchemaFamily /\ silver \in {EmptySilver, OldSilver}
       \/ bronze \in ValueFamily \cup TimeFamily \cup PaymentFamily \cup RfmFamily
          /\ silver = EmptySilver
    /\ gold = NoFile
    /\ self = NoTables
    /\ pc = "load_bronze"
    /\ error = "none"
    /\ df = <<>>
    /\ rfm = <<>>
    /\ customers = <<>>

\* self.load_bronze()
LoadBronze ==
    /\ pc = "load_bronze"
    /\ self' = bronze
    /\ pc' = "build_order_level"
    /\ UNCHANGED <<bronze, silver, gold, error, df, rfm, customers>>

\* orders = self.build_order_level()
BuildOrderLevel ==
    /\ pc = "build_order_level"
    /\ LET r == build_order_level(self)
       IN  /\ error' = r.error
           /\ df' = r.rows
           /\ pc' = IF r.error = "none" THEN "add_features" ELSE "failed"
    /\ UNCHANGED <<bronze, silver, gold, self, rfm, customers>>

\* (variant) add_features followed at once by the write of orders_silver
AddFeaturesThenSave ==
    /\ pc = "add_features"
    /\ LET r == add_features(df)
       IN  /\ error' = r.error
           /\ df' = IF r.error = "none" THEN r.rows ELSE df
           /\ pc' = IF r.error = "none" THEN "build_rfm" ELSE "failed"
           /\ silver' = IF r.error = "none"
                        THEN [silver EXCEPT !.orders_silver = ToParquet(r.rows)]
                        ELSE silver
    /\ UNCHANGED <<bronze, gold, self, rfm, customers>>

\* orders = self.add_features(orders)
AddFeatures ==
    /\ pc = "add_features"
    /\ LET r == add_features(df)
       IN  /\ error' = r.error
           /\ df' = IF r.error = "none" THEN r.rows ELSE df
           /\ pc' = IF r.error = "none" THEN "build_rfm" ELSE "failed"
    /\ UNCHANGED <<bronze, silver, gold, self, rfm, customers>>

\* rfm = self.build_rfm(orders)
BuildRfm ==
    /\ pc = "build_rfm"
    /\ LET r == build_rfm(df, self.missing)
       IN  /\ error' = r.error
           /\ rfm' = r.rows
           /\ pc' = IF r.error = "none" THEN "build_customer_summary" ELSE "failed"
    /\ UNCHANGED <<bronze, silver, gold, self, df, customers>>

\* customers = self.build_customer_summary(orders)
BuildCustomerSummary ==
    /\ pc = "build_customer_summary"
    /\ customers' = build_customer_summary(df)
    /\ pc' = "save_orders"
    /\ UNCHANGED <<bronze, silver, gold, self, error, df, rfm>>

\* orders.to_parquet(self.silver_path / "orders_silver.parquet", index=False)
SaveOrders ==
    /\ pc = "save_orders"
    /\ silver' = [silver EXCEPT !.orders_silver = ToParquet(df)]
    /\ pc' = "save_rfm"
    /\ UNCHANGED <<bronze, gold, self, error, df, rfm, customers>>

\* rfm.to_parquet(self.silver_path / "rfm.parquet", index=False)
SaveRfm ==
    /\ pc = "save_rfm"
    /\ silver' = [silver EXCEPT !.rfm = ToParquet(rfm)]
    /\ pc' = "save_customers"
    /\ UNCHANGED <<bronze, gold, self, error, df, rfm, customers>>

\* customers.to_parquet(self.silver_path / "customers_silver.parquet", index=False)
SaveCustomers ==
    /\ pc = "save_customers"
    /\ silver' = [silver EXCEPT !.customers_silver = ToParquet(customers)]
    /\ pc' = "done"
    /\ UNCHANGED <<bronze, gold, self, error, df, rfm, customers>>

\* scripts/build_churn_dataset.py, run once the silver layer is complete
BuildChurnDataset ==
    /\ pc = "done"
    /\ gold' = ToParquet(build_churn_dataset(silver.orders_silver.rows,
                                             silver.customers_silver.rows,
                                             silver.rfm.rows))
    /\ pc' = "gold"
    /\ UNCHANGED <<bronze, silver, self, error, df, rfm, customers>>

Next ==
    \/ LoadBronze
    \/ BuildOrderLevel
    \/ AddFeatures
    \/ BuildRfm
    \/ BuildCustomerSummary
    \/ SaveOrders
    \/ SaveRfm
    \/ SaveCustomers
    \/ BuildChurnDataset

Spec == Init /\ [][Next]_vars

---------------------------------------------------------------------------
(* Properties *)

Rows(t) == { t[i] : i \in DOMAIN t }

\* the fact table carries the derived columns (add_features has completed)
Featured == df # <<>> /\ "order_value" \in DOMAIN df[1]

\* equality of two rationals with non-zero denominators
SameQ(a, b) == a.num * b.den = b.num * a.den

\* two means agree: both missing, or both present and equal
Agree(a, b) ==
    \/ a.den = 0 /\ b.den = 0
    \/ a.den # 0 /\ b.den # 0 /\ SameQ(a, b)

\* the delivered orders of the bronze snapshot that belong to person uid
DeliveredOf(uid) ==
    { o.order_id : o \in
        { o \in Rows(bronze.orders) :
            /\ o.order_status = "delivered"
            /\ \E c \in Rows(bronze.customers) :
                  c.customer_id = o.customer_id /\ c.customer_unique_id = uid } }

\* C1: every row of the order-level fact table (in memory and in
\* orders_silver) has order_status "delivered", and the order counts of the
\* RFM table, the customer summary and the churn dataset count exactly the
\* customer's delivered orders: no other order contributes.
C1_OnlyDelivered ==
    /\ \A r \in Rows(df) \cup Rows(silver.orders_silver.rows) :
          r.order_status = "delivered"
    /\ \A r \in Rows(rfm) :
          r.frequency = Cardinality(DeliveredOf(r.customer_unique_id))
    /\ \A r \in Rows(customers) :
          r.total_orders = Cardinality(DeliveredOf(r.customer_unique_id))
    /\ \A r \in Rows(gold.rows) :
          r.order_count = Cardinality(DeliveredOf(r.customer_unique_id))

\* a person with an undelivered and a delivered order reaches the churn dataset
C1_Witness ==
    /\ pc = "gold"
    /\ \E o \in Rows(bronze.orders), c \in Rows(bronze.customers),
          g \in Rows(gold.rows) :
          /\ o.order_status # "delivered"
          /\ c.customer_id = o.customer_id
          /\ c.customer_unique_id = g.customer_unique_id

\* C2: every row build_rfm returns has R, F and M in 1..5 and
\* RFM_SCORE = R + F + M, between 3 and 15.
C2_ScoresInRange ==
    \A r \in Rows(rfm) \cup Rows(silver.rfm.rows) :
        /\ r.R \in 1..5
        /\ r.F \in 1..5
        /\ r.M \in 1..5
        /\ r.RFM_SCORE = r.R + r.F + r.M
        /\ r.RFM_SCORE \in 3..15

\* build_rfm has returned a table holding both extreme scores
C2_Witness ==
    /\ pc = "build_customer_summary"
    /\ \E r \in Rows(rfm) : r.RFM_SCORE = 3
    /\ \E r \in Rows(rfm) : r.RFM_SCORE = 15

ItemsNonNegative ==
    \A it \in Rows(bronze.order_items) : it.price >= 0 /\ it.freight_value >= 0

PurchasesOf(uid) ==
    { r.order_purchase_timestamp :
        r \in { r \in Rows(silver.orders_silver.rows) :
                  r.customer_unique_id = uid /\ r.order_purchase_timestamp # NaN } }

AllPurchases ==
    { r.order_purchase_timestamp :
        r \in { r \in Rows(silver.orders_silver.rows) :
                  r.order_purchase_timestamp # NaN } }

\* the time elapsed between person uid's latest purchase and the latest
\* purchase of the whole dataset, in time units
SinceLast(uid) == SetMax(AllPurchases) - SetMax(PurchasesOf(uid))

\* C4: in the churn dataset churn = 1 exactly when the whole-day difference
\* between the dataset-wide latest purchase and the customer's latest
\* purchase exceeds 90, else 0; exactly 91 days gives 1, exactly 90 gives 0.
C4_ChurnLabel ==
    \A g \in Rows(gold.rows) :
        /\ g.churn \in {0, 1}
        /\ g.churn = 1 <=> SinceLast(g.customer_unique_id) >= 91 * UnitsPerDay
        /\ SinceLast(g.customer_unique_id) = 91 * UnitsPerDay => g.churn = 1
        /\ SinceLast(g.customer_unique_id) = 90 * UnitsPerDay => g.churn = 0

\* the churn dataset holds a customer exactly 91 days and one exactly 90 days
\* behind the latest purchase
C4_Witness ==
    /\ pc = "gold"
    /\ \E g \in Rows(gold.rows) :
          SinceLast(g.customer_unique_id) = 91 * UnitsPerDay /\ g.churn = 1
    /\ \E g \in Rows(gold.rows) :
          SinceLast(g.customer_unique_id) = 90 * UnitsPerDay /\ g.churn = 0

\* C5 as stated: orders_per_month = total_orders / max(days_active/30, 1)
\* for every days_active >= 0.
C5_OrdersPerMonthFloored ==
    \A r \in Rows(customers) :
        (r.days_active # NaN /\ r.days_active >= 0) =>
            SameQ(r.orders_per_month,
                  IF r.days_active <= 30
                  THEN [num |-> r.total_orders, den |-> 1]
                  ELSE [num |-> r.total_orders * 30, den |-> r.days_active])

\* C5 amended: orders_per_month = total_orders / (days_active/30) for every
\* days_active > 0 (including 0 < days_active < 30), and = total_orders for
\* days_active = 0.
C5_OrdersPerMonthZeroGuarded ==
    \A r \in Rows(customers) :
        (r.days_active # NaN /\ r.days_active >= 0) =>
            /\ r.orders_per_month.den # 0
            /\ SameQ(r.orders_per_month,
                     IF r.days_active = 0
                     THEN [num |-> r.total_orders, den |-> 1]
                     ELSE [num |-> r.total_orders * 30, den |-> r.days_active])

\* the summary holds a customer active for less than a month and more than 0
\* days, and one active for 0 days
C5_Witness ==
    /\ \E r \in Rows(customers) : r.days_active > 0 /\ r.days_active < 30
    /\ \E r \in Rows(customers) : r.days_active = 0

\* the payment types of an order, in the row order of the payments table
TypesOf(order_id) ==
    Column(Group(bronze.payments, "order_id", order_id), "payment_type")

IsMostFrequent(xs, v) ==
    /\ v \in Range(xs)
    /\ \A w \in Range(xs) : Count(xs, w) <= Count(xs, v)

FirstAt(xs, v) == SetMin({ i \in DOMAIN xs : xs[i] = v })

\* C6 as stated: payment_type is a most frequent type of the order's payment
\* rows, and among tied types the one that occurs first in row order.
C6_ModeFirstEncountered ==
    \A r \in Rows(df) :
        TypesOf(r.order_id) # <<>> =>
            /\ IsMostFrequent(TypesOf(r.order_id), r.payment_type)
            /\ \A w \in Range(TypesOf(r.order_id)) :
                  IsMostFrequent(TypesOf(r.order_id), w) =>
                      FirstAt(TypesOf(r.order_id), r.payment_type)
                          <= FirstAt(TypesOf(r.order_id), w)

\* C6 amended: payment_type is a most frequent type of the order's payment
\* rows, and among tied types the one that sorts first (the smallest type
\* name), wherever it occurs in the row order.
C6_ModeSmallest ==
    \A r \in Rows(df) :
        /\ TypesOf(r.order_id) = <<>> => r.payment_type = NaN
        /\ TypesOf(r.order_id) # <<>> =>
            /\ IsMostFrequent(TypesOf(r.order_id), r.payment_type)
            /\ \A w \in Range(TypesOf(r.order_id)) :
                  IsMostFrequent(TypesOf(r.order_id), w) => r.payment_type <= w

\* an order whose most frequent types tie, the first one met not the smallest
C6_Witness ==
    \E r \in Rows(df) :
        /\ TypesOf(r.order_id) # <<>>
        /\ \E w \in Range(TypesOf(r.order_id)) :
              /\ w # r.payment_type
              /\ IsMostFrequent(TypesOf(r.order_id), w)
              /\ FirstAt(TypesOf(r.order_id), w)
                    < FirstAt(TypesOf(r.order_id), r.payment_type)

Distinct(xs) == Cardinality(Range(DropNa(xs)))

\* the build steps of run() have all returned
AllBuilt == pc \in { "save_orders", "save_rfm", "save_customers", "done", "gold" }

\* C7: when order_value has fewer than 4 distinct values, or recency, ranked
\* frequency or monetary fewer than 5, the silver stage fails; it never
\* completes its build steps with scores and categories for that population.
C7_FewDistinctValuesFail ==
    AllBuilt =>
        /\ Distinct(Column(df, "order_value")) >= 4
        /\ Distinct(Column(rfm, "recency")) >= 5
        /\ Len(rfm) >= 5
        /\ Distinct(Column(rfm, "monetary")) >= 5

NotYetSaving ==
    { "load_bronze", "build_order_level", "add_features", "build_rfm",
      "build_customer_summary", "save_orders", "failed" }

\* C8: no silver file is written before build_order_level, add_features,
\* build_rfm and build_customer_summary have all completed, and a run that
\* fails in one of them leaves every silver file as it was.
C8_NoWriteBeforeAllBuilt ==
    /\ [](pc \in NotYetSaving =>
            \A f \in SilverFiles : silver[f].written_by # "this run")
    /\ [][pc' \in NotYetSaving => silver' = silver]_vars

\* build_rfm has failed on a fact table that add_features completed, with the
\* files of an earlier run in place
C8_Witness ==
    /\ pc = "failed"
    /\ error = "ValueError"
    /\ Featured
    /\ silver = OldSilver

FCount(v) == Cardinality({ i \in DOMAIN rfm : rfm[i].F = v })

\* C9: on a population of at least 5 customers the F score takes all five
\* values, the group sizes differ by at most 1 however many customers share a
\* frequency, and a higher frequency never gets a lower F.
C9_FrequencyQuintiles ==
    Len(rfm) >= 5 =>
        /\ \A v \in 1..5 : FCount(v) >= 1
        /\ \A v, w \in 1..5 : FCount(v) - FCount(w) <= 1
        /\ \A i, j \in DOMAIN rfm :
              rfm[i].frequency > rfm[j].frequency => rfm[i].F >= rfm[j].F

\* build_rfm has returned at least 5 customers, more than one per raw
\* frequency, with different F scores inside a tie
C9_Witness ==
    /\ Len(rfm) >= 5
    /\ \E i, j \in DOMAIN rfm :
          rfm[i].frequency = rfm[j].frequency /\ rfm[i].F # rfm[j].F
    /\ \E i, j \in DOMAIN rfm : rfm[i].frequency > rfm[j].frequency

\* C10: for every customer the churn stage's recomputed order_count,
\* total_spend and avg_order_value agree with the customer summary's
\* total_orders, total_spend and avg_order_value.
C10_AggregatesAgree ==
    \A g \in Rows(gold.rows) :
        /\ g.order_count = g.total_orders
        /\ g.total_spend_x = g.total_spend_y
        /\ Agree(g.avg_order_value_x, g.avg_order_value_y)

====
